---- MODULE Spec2Model ----
(***************************************************************************)
(* FastBERT (src/pypi/fastbert/fastbert.py): the adaptive-depth inference  *)
(* pass, the token-sequence conversion and the two-phase training          *)
(* orchestration of class FastBERT.                                        *)
(*                                                                         *)
(* Numbers: probabilities are counted in quarters (<<3, 1>> is the         *)
(* distribution (0.75, 0.25)); uncertainties and speeds are in thousandths *)
(* (500 is 0.5); an accuracy right_count / total_num is the pair           *)
(* <<right_count, total_num>> and is compared by cross-multiplication.     *)
(* Label names are integers: a name >= 2 is a name that is no label id     *)
(* (such as the string "pos"), the names 0 and 1 are integer labels.       *)
(***************************************************************************)
EXTENDS Integers, Sequences, FiniteSets, TLC

\* ------------------------------------------------------------------ bounds

\* kernel.encoder.layers_num: the number of backbone layers and of heads.
LayersNum == 3
\* Parameter values of the kernel and of each classifier are 0..MaxParam.
MaxParam == 1
\* The longest tokenised sentence.
MaxTokens == 5
\* The largest args.seq_length.
MaxSeqLen == 4
\* The largest batch_size, finetuning_epochs_num and distilling_epochs_num.
MaxBatch == 2
MaxFtEpochs == 3
MaxSdEpochs == 2

\* self.vocab.get('[CLS]') and self.vocab.get('[PAD]').
cls_id == 101
pad_id == 0

\* ------------------------------------------------------------ input domains

ParamValues == 0..MaxParam

\* vocab.get(t) of the tokens of a sentence: a sentence is the sequence of
\* the ids of its tokens.
TokenIds == {1, 2}

RECURSIVE SeqsUpTo(_, _)
SeqsUpTo(S, n) ==
    IF n = 0 THEN {<<>>}
    ELSE LET shorter == SeqsUpTo(S, n - 1)
         IN  shorter \cup {Append(s, x) : s \in {t \in shorter : Len(t) = n - 1}, x \in S}

Sentences == SeqsUpTo(TokenIds, MaxTokens)

\* The sentences the inference passes are run on.
InferSentences == {s \in Sentences : Len(s) <= 2 /\ \A j \in 1..Len(s) : s[j] = 1}

\* The label lists a model is constructed with: two names that are no ids,
\* the integer labels in id order, and the integer labels swapped.
LabelLists == {<<7, 8>>, <<0, 1>>, <<1, 0>>}

\* speed values, in thousandths.
Speeds == {0, 500, 811, 1000}

\* The softmax outputs of a head over two labels, in quarters.
Dists == << <<4, 0>>, <<2, 2>>, <<1, 3>>, <<0, 4>> >>

Range(f) == {f[x] : x \in DOMAIN f}

\* ------------------------------------------------------------------- state

VARIABLES
    label_map,      \* self.label_map: label name -> id
    id2label,       \* self.id2label: id -> label name
    labels_num,     \* self.labels_num
    seq_length,     \* self.args.seq_length
    kernel,         \* the parameters of self.kernel
    classifiers,    \* the parameters of self.classifiers[0..L-1] (here 1..L)
    training,       \* nn.Module.training: set by self.train(), cleared by self.eval()
    ret,            \* the last call to forward and what it returned
    prev,           \* the call to forward before that
    conv,           \* the last call to _convert_to_id_and_mask and its result
    ckpt,           \* what forward returned when save_model was last called,
                    \* whether load_model has restored the parameters, whether
                    \* that changed one, and whether forward ran since
    pc,             \* where the running fit call stands
    args,           \* the arguments of the running fit call
    train,          \* sentences_train / labels_train in their current order
    epoch,          \* the epoch of the running loop, 0-based
    step,           \* the step of the running epoch, 0-based
    best_acc,       \* best_acc of _fine_tuning_backbone
    file,           \* what model_saving_path holds
    error,          \* the exception that ended the fit call
    decision,       \* the last epoch-end evaluation that ran to its end
    ft_accs,        \* the accuracies of the epochs of the running Phase 1
    ft_saves,       \* the epochs (1-based) of the running Phase 1 that saved
    ft_best,        \* the best-accuracy parameter state Phase 1 has produced
    sd_trained,     \* the Phase 2 epochs whose minibatch loop has ended
    sd_saves,       \* the checkpoints Phase 2 has written
    steplog         \* the minibatches of the running epoch that an optimizer
                    \* step was taken on, and the calls of its steps in order

modelVars == <<label_map, id2label, labels_num, seq_length, kernel, classifiers,
               training>>
callVars == <<ret, prev, conv, ckpt>>
fitVars == <<pc, args, train, epoch, step, best_acc, file, error, decision,
             ft_accs, ft_saves, ft_best, sd_trained, sd_saves, steplog>>
vars == <<modelVars, callVars, fitVars>>

\* ------------------------------------------------------------- construction

\* label_map = {k: v for v, k in enumerate(labels)}: a later index wins.
LabelMapOf(labels) ==
    [k \in Range(labels) |->
        CHOOSE v \in 0..(Len(labels) - 1) :
            /\ labels[v + 1] = k
            /\ \A w \in 0..(Len(labels) - 1) : labels[w + 1] = k => w <= v]

\* id2label = {v: k for k, v in self.label_map.items()}
Id2LabelOf(lm) ==
    [v \in Range(lm) |-> CHOOSE k \in DOMAIN lm : lm[k] = v]

\* ------------------------------------------------ _convert_to_id_and_mask

Repeat(x, n) == [j \in 1..n |-> x]

\* ids[:n] of a list.
Prefix(s, n) == SubSeq(s, 1, IF n < Len(s) THEN n ELSE Len(s))

\* The conversion with the start token left out of the padding count.
ConvertPadMiscounted(sentence, seqlen) ==
    LET ids  == <<cls_id>> \o sentence
        mask == Repeat(1, Len(ids))
    IN  IF Len(ids) >= seqlen
        THEN [ids |-> Prefix(ids, seqlen), mask |-> Prefix(mask, seqlen)]
        ELSE LET pad_num == seqlen - Len(sentence)
             IN  [ids  |-> ids \o Repeat(pad_id, pad_num),
                  mask |-> mask \o Repeat(0, pad_num)]

\* The conversion keeping the latest tokens of a sentence that is too long.
ConvertKeepsLatest(sentence, seqlen) ==
    LET ids  == <<cls_id>> \o sentence
        mask == Repeat(1, Len(ids))
    IN  IF Len(ids) >= seqlen
        THEN [ids  |-> SubSeq(ids, Len(ids) - seqlen + 1, Len(ids)),
              mask |-> Prefix(mask, seqlen)]
        ELSE LET pad_num == seqlen - Len(ids)
             IN  [ids  |-> ids \o Repeat(pad_id, pad_num),
                  mask |-> mask \o Repeat(0, pad_num)]

ConvertToIdAndMask(sentence, seqlen) ==
    LET ids  == <<cls_id>> \o sentence
        mask == Repeat(1, Len(ids))
    IN  IF Len(ids) >= seqlen
        THEN [ids |-> Prefix(ids, seqlen), mask |-> Prefix(mask, seqlen)]
        ELSE LET pad_num == seqlen - Len(ids)
             IN  [ids  |-> ids \o Repeat(pad_id, pad_num),
                  mask |-> mask \o Repeat(0, pad_num)]

\* ------------------------------------------------ the network (black boxes)

RECURSIVE SumMasked(_, _, _)
SumMasked(ids, mask, j) ==
    IF j > Len(ids) THEN 0
    ELSE ids[j] * mask[j] + SumMasked(ids, mask, j + 1)

\* self.kernel.embedding(ids, mask): the hidden state is a number that depends
\* on the masked-in ids only.
Embedding(ids, mask) == SumMasked(ids, mask, 1) % Len(Dists)

\* self.kernel.encoder.transformer[i](hidden, mask) under kernel parameters k.
Transformer(k, i, hidden) == (hidden + k * (i + 1) + i) % Len(Dists)

\* F.softmax(self.classifiers[i](hidden, mask), dim=1) under head parameters
\* c: the head's parameters select a distribution for each hidden state.
Classifier(c, hidden) == Dists[((c + hidden) % Len(Dists)) + 1]

\* calc_uncertainty(probs, labels_num): the normalised entropy, in
\* thousandths: 0 for a one-hot distribution, 1000 for the uniform one.
calc_uncertainty(probs) ==
    IF \E j \in DOMAIN probs : probs[j] = 4 THEN 0
    ELSE IF \A j \in DOMAIN probs : probs[j] = 2 THEN 1000
    ELSE 811

\* torch.argmax(probs, dim=1).item(): the first index of the maximum, 0-based.
ArgMax(probs) ==
    (CHOOSE j \in DOMAIN probs :
        /\ \A m \in DOMAIN probs : probs[m] <= probs[j]
        /\ \A m \in DOMAIN probs : probs[m] = probs[j] => j <= m) - 1

\* --------------------------------------------------------------- _fast_infer

\* The exit test with a non-strict comparison, and with the comparison turned
\* round.
ExitTestLE(uncertainty, speed) == uncertainty <= speed
ExitTestInverted(uncertainty, speed) == uncertainty > speed

\* if uncertainty < speed
ExitTest(uncertainty, speed) == uncertainty < speed

\* The loop reporting the 0-based index of the exit layer.
RECURSIVE LayerLoopIndexReported(_, _, _, _, _, _)
LayerLoopIndexReported(k, cs, speed, i, hidden, exec_layer_num) ==
    LET h           == Transformer(k, i, hidden)
        probs       == Classifier(cs[i + 1], h)
        uncertainty == calc_uncertainty(probs)
    IN  IF ExitTest(uncertainty, speed)
        THEN [exec_layer_num |-> i, probs |-> probs, ran |-> i + 1]
        ELSE IF i + 1 < LayersNum
        THEN LayerLoopIndexReported(k, cs, speed, i + 1, h, exec_layer_num)
        ELSE [exec_layer_num |-> exec_layer_num, probs |-> probs, ran |-> i + 1]

\* The loop over the layers from layer i on: exec_layer_num is the value the
\* loop reports, ran the number of transformer layers it called.
RECURSIVE LayerLoop(_, _, _, _, _, _)
LayerLoop(k, cs, speed, i, hidden, exec_layer_num) ==
    LET h           == Transformer(k, i, hidden)
        probs       == Classifier(cs[i + 1], h)
        uncertainty == calc_uncertainty(probs)
    IN  IF ExitTest(uncertainty, speed)
        THEN [exec_layer_num |-> i + 1, probs |-> probs, ran |-> i + 1]
        ELSE IF i + 1 < LayersNum
        THEN LayerLoop(k, cs, speed, i + 1, h, exec_layer_num)
        ELSE [exec_layer_num |-> exec_layer_num, probs |-> probs, ran |-> i + 1]

KeyError == [status |-> "KeyError", value |-> -1]

\* dict[key]: the value, or KeyError.
Lookup(d, key) ==
    IF key \in DOMAIN d THEN [status |-> "ok", value |-> d[key]]
    ELSE KeyError

\* What the dropout layers add to the embedding when they are active.
DropoutNoise == {0, 1}

\* What the dropout layers draw in a pass: nothing unless they are active.
DropoutDraws(mode) == IF mode THEN DropoutNoise ELSE {0}

\* nn.Dropout: the identity in evaluation mode, noise in training mode.
Dropout(hidden, mode, noise) ==
    IF mode THEN (hidden + noise) % Len(Dists) ELSE hidden

\* An inference pass that leaves the mode as it finds it.
EvalModeSkipped(mode) == mode

\* self.eval(): whatever the mode was, it is evaluation mode now.
EvalMode(mode) == FALSE

\* _fast_infer on a model whose training flag is mode on entry; noise is
\* what the dropout layers would draw in this pass.
FastInfer(k, cs, i2l, seqlen, sentence, speed, mode, noise) ==
    LET tm       == ConvertToIdAndMask(sentence, seqlen)
        emb      == Dropout(Embedding(tm.ids, tm.mask), EvalMode(mode), noise)
        r        == LayerLoop(k, cs, speed, 0, emb, LayersNum)
        label_id == ArgMax(r.probs)
        label    == Lookup(i2l, label_id)
    IN  [status         |-> label.status,
         label          |-> label.value,
         label_id       |-> label_id,
         exec_layer_num |-> r.exec_layer_num,
         ran            |-> r.ran,
         probs          |-> r.probs]

\* ------------------------------------------------------------------ forward

\* label = self.id2label[label_id], label_id being what _fast_infer returned.
Forward(k, cs, i2l, seqlen, sentence, speed, mode, noise) ==
    LET inner == FastInfer(k, cs, i2l, seqlen, sentence, speed, mode, noise)
        label == IF inner.status = "ok" THEN Lookup(i2l, inner.label)
                 ELSE KeyError
    IN  [status         |-> label.status,
         label          |-> label.value,
         exec_layer_num |-> inner.exec_layer_num,
         inner          |-> inner]

NoCall == [op |-> "none"]
NoCkpt == [preds |-> <<>>, loaded |-> FALSE, changed |-> FALSE, called |-> FALSE]

\* ------------------------------------------------- specifications: inference

\* FastBERT(kernel_name, labels): the kernel holds the pretrained weights,
\* the classifiers are initialised at random.
Construct(labels) ==
    /\ label_map = LabelMapOf(labels)
    /\ id2label = Id2LabelOf(LabelMapOf(labels))
    /\ labels_num = Len(labels)
    /\ kernel = 0
    /\ classifiers \in [1..LayersNum -> ParamValues]
    /\ training = TRUE

NoFile == [kernel |-> -1, classifiers |-> <<>>]
NoError == [type |-> "none", where |-> "none"]
NoArgs == [op |-> "none"]

NoSteps == [batches |-> <<>>, ops |-> <<>>]

\* No fit call is running.
FitIdle ==
    /\ pc = "idle"
    /\ args = NoArgs
    /\ train = <<>>
    /\ epoch = 0
    /\ step = 0
    /\ best_acc = <<0, 1>>
    /\ error = NoError
    /\ decision = NoCall
    /\ ft_accs = <<>>
    /\ ft_saves = <<>>
    /\ ft_best = NoCall
    /\ sd_trained = 0
    /\ sd_saves = 0
    /\ steplog = NoSteps

\* --------------------------------------------- specifications: construction

\* What a caller passes as labels: a list or another iterable (a tuple) of
\* label names.
LabelNames == {0, 1, 7}
LabelArgs == {[is_list |-> b, items |-> s] : b \in BOOLEAN, s \in SeqsUpTo(LabelNames, 2)}

\* No object exists yet.
InitConstruct ==
    /\ label_map = <<>>
    /\ id2label = <<>>
    /\ labels_num = -1
    /\ seq_length = 0
    /\ kernel = -1
    /\ classifiers = <<>>
    /\ training = FALSE
    /\ ret = NoCall
    /\ prev = NoCall
    /\ conv = NoCall
    /\ ckpt = NoCkpt
    /\ file = NoFile
    /\ FitIdle

\* FastBERT(kernel_name, labels, seq_length=seqlen): the one check on labels
\* is assert isinstance(labels, list).
New(labels, seqlen) ==
    /\ labels_num = -1
    /\ error = NoError
    /\ ret' = [op |-> "__init__", labels |-> labels]
    /\ IF ~labels.is_list
       THEN /\ error' = [type |-> "AssertionError", where |-> "__init__"]
            /\ UNCHANGED modelVars
       ELSE /\ label_map' = LabelMapOf(labels.items)
            /\ id2label' = Id2LabelOf(LabelMapOf(labels.items))
            /\ labels_num' = Len(labels.items)
            /\ kernel' = 0
            /\ classifiers' \in [1..LayersNum -> ParamValues]
            /\ training' = TRUE
            /\ seq_length' = seqlen
            /\ UNCHANGED error
    /\ UNCHANGED <<prev, conv, ckpt, pc, args, train, epoch, step, best_acc, file,
                   decision, ft_accs, ft_saves, ft_best, sd_trained, sd_saves,
                   steplog>>

NextConstruct == \E labels \in LabelArgs, seqlen \in 1..MaxSeqLen : New(labels, seqlen)

SpecConstruct == InitConstruct /\ [][NextConstruct]_vars

\* ------------------------------------------------ specifications: inference

InitInfer ==
    /\ \E labels \in LabelLists : Construct(labels)
    /\ seq_length \in {2, MaxSeqLen}
    /\ ret = NoCall
    /\ prev = NoCall
    /\ conv = NoCall
    /\ ckpt = NoCkpt
    /\ file = NoFile
    /\ FitIdle

\* model(sentence, speed): FastBERT.forward.
Predict(sentence, speed) ==
    /\ \E noise \in DropoutDraws(EvalMode(training)) :
          ret' = [op       |-> "forward",
                  sentence |-> sentence,
                  speed    |-> speed,
                  mode     |-> training,
                  out      |-> Forward(kernel, classifiers, id2label, seq_length,
                                       sentence, speed, training, noise)]
    /\ prev' = ret
    /\ ckpt' = [ckpt EXCEPT !.called = ckpt.loaded]
    /\ training' = EvalMode(training)
    /\ UNCHANGED <<label_map, id2label, labels_num, seq_length, kernel,
                   classifiers, conv, fitVars>>

NextInfer == \E s \in InferSentences, sp \in Speeds : Predict(s, sp)

SpecInfer == InitInfer /\ [][NextInfer]_vars

\* Inference between training-loss passes.
InitMode ==
    /\ Construct(<<7, 8>>)
    /\ seq_length = MaxSeqLen
    /\ ret = NoCall
    /\ prev = NoCall
    /\ conv = NoCall
    /\ ckpt = NoCkpt
    /\ file = NoFile
    /\ FitIdle

\* _forward_for_loss on its own, without an optimizer step: self.train().
ForwardForLoss ==
    /\ training' = TRUE
    /\ UNCHANGED <<label_map, id2label, labels_num, seq_length, kernel,
                   classifiers, callVars, fitVars>>

NextMode ==
    \/ \E s \in InferSentences, sp \in Speeds : Predict(s, sp)
    \/ ForwardForLoss

SpecMode == InitMode /\ [][NextMode]_vars

\* ------------------------------------------------ specifications: conversion

InitConvert ==
    /\ Construct(<<7, 8>>)
    /\ classifiers = [i \in 1..LayersNum |-> 0]
    /\ seq_length \in 1..MaxSeqLen
    /\ ret = NoCall
    /\ prev = NoCall
    /\ conv = NoCall
    /\ ckpt = NoCkpt
    /\ file = NoFile
    /\ FitIdle

Convert(sentence) ==
    /\ conv' = [op       |-> "_convert_to_id_and_mask",
                sentence |-> sentence,
                out      |-> ConvertToIdAndMask(sentence, seq_length)]
    /\ UNCHANGED <<modelVars, ret, prev, ckpt, fitVars>>

NextConvert == \E s \in Sentences : Convert(s)

SpecConvert == InitConvert /\ [][NextConvert]_vars

\* ------------------------------------------------------------- persistence

Snapshot == [kernel |-> kernel, classifiers |-> classifiers]

\* What a model gets from a checkpoint that holds only the kernel: the
\* classifiers of a fresh model.
SaveModelKernelOnly == [kernel |-> kernel, classifiers |-> [i \in 1..LayersNum |-> 0]]

\* save_model(self, path): the file holds every parameter of the model.
SaveModel == Snapshot

\* load_model(self, path): every parameter of the model is what the file holds.
LoadModel(f) == [kernel |-> f.kernel, classifiers |-> f.classifiers]

\* ------------------------------------------- specifications: persistence

\* The sentences and speeds a saved model is compared on.
PersistInputs == {<<>>, <<1>>} \X {0, 500}

\* model.save_model(path)
SaveCall ==
    /\ file' = SaveModel
    /\ \E noise \in DropoutDraws(EvalMode(training)) :
          ckpt' = [ckpt EXCEPT !.preds =
                      [x \in PersistInputs |->
                          Forward(kernel, classifiers, id2label, seq_length,
                                  x[1], x[2], training, noise)]]
    /\ UNCHANGED <<modelVars, ret, prev, conv, pc, args, train, epoch, step,
                   best_acc, error, decision, ft_accs, ft_saves, ft_best,
                   sd_trained, sd_saves,
                   steplog>>

\* model.load_model(path) on a path that holds a checkpoint.
LoadCall ==
    /\ file # NoFile
    /\ kernel' = LoadModel(file).kernel
    /\ classifiers' = LoadModel(file).classifiers
    /\ ckpt' = [ckpt EXCEPT !.loaded = TRUE, !.changed = (Snapshot # file),
                            !.called = FALSE]
    /\ UNCHANGED <<label_map, id2label, labels_num, seq_length, training, ret,
                   prev, conv, fitVars>>

\* Training before the load: a parameter of the kernel or of a classifier
\* moves to an end of its range.
Perturb ==
    /\ ~ckpt.loaded
    /\ \E v \in {0, MaxParam} :
          \/ /\ kernel' = v
             /\ kernel' # kernel
             /\ UNCHANGED classifiers
          \/ /\ \E i \in 1..LayersNum :
                   /\ classifiers[i] # v
                   /\ classifiers' = [classifiers EXCEPT ![i] = v]
             /\ UNCHANGED kernel
    /\ training' = TRUE
    /\ UNCHANGED <<label_map, id2label, labels_num, seq_length, callVars,
                   fitVars>>

InitPersist ==
    /\ Construct(<<0, 1>>)
    /\ classifiers = [i \in 1..LayersNum |-> 0]
    /\ seq_length = MaxSeqLen
    /\ ret = NoCall
    /\ prev = NoCall
    /\ conv = NoCall
    /\ ckpt = NoCkpt
    /\ file = NoFile
    /\ FitIdle

NextPersist ==
    \/ SaveCall
    \/ LoadCall
    \/ Perturb
    \/ ckpt.loaded /\ \E x \in PersistInputs : Predict(x[1], x[2])

SpecPersist == InitPersist /\ [][NextPersist]_vars

\* ---------------------------------------------------------------- _evaluate

\* The loop of _evaluate over zip(sentences_batch, labels_batch) from
\* instance j on: right_count, the executed layers summed, and whether an
\* inference raised.
RECURSIVE EvaluateLoop(_, _, _, _, _, _, _, _, _)
EvaluateLoop(k, cs, i2l, seqlen, set, speed, mode, noise, j) ==
    IF j > Len(set)
    THEN [status |-> "ok", right_count |-> 0, exec_layers |-> 0]
    ELSE LET r    == FastInfer(k, cs, i2l, seqlen, set[j].sentence, speed,
                               mode, noise)
             rest == EvaluateLoop(k, cs, i2l, seqlen, set, speed, mode, noise,
                                  j + 1)
         IN  IF r.status # "ok"
             THEN [status |-> r.status, right_count |-> 0, exec_layers |-> 0]
             ELSE [status      |-> rest.status,
                   right_count |-> rest.right_count
                                     + (IF set[j].label = r.label THEN 1 ELSE 0),
                   exec_layers |-> rest.exec_layers + r.exec_layer_num]

NoAcc == <<0, 0>>

\* An evaluation that answers the accuracy 0.0 for an empty set.
EvaluateZeroOnEmpty(k, cs, i2l, seqlen, set, speed, mode, noise) ==
    LET total_num == Len(set)
        loop      == EvaluateLoop(k, cs, i2l, seqlen, set, speed, mode, noise, 1)
    IN  IF loop.status # "ok"
        THEN [status |-> loop.status, acc |-> NoAcc, speed |-> speed]
        ELSE IF total_num = 0
        THEN [status |-> "ok", acc |-> <<0, 1>>, speed |-> speed]
        ELSE [status |-> "ok", acc |-> <<loop.right_count, total_num>>,
              speed |-> speed]

\* acc = right_count / total_num raises ZeroDivisionError on an empty set.
Evaluate(k, cs, i2l, seqlen, set, speed, mode, noise) ==
    LET total_num == Len(set)
        loop      == EvaluateLoop(k, cs, i2l, seqlen, set, speed, mode, noise, 1)
    IN  IF loop.status # "ok"
        THEN [status |-> loop.status, acc |-> NoAcc, speed |-> speed]
        ELSE IF total_num = 0
        THEN [status |-> "ZeroDivisionError", acc |-> NoAcc, speed |-> speed]
        ELSE [status |-> "ok", acc |-> <<loop.right_count, total_num>>,
              speed |-> speed]

EvaluateNow(set, speed, noise) ==
    Evaluate(kernel, classifiers, id2label, seq_length, set, speed, training,
             noise)

\* ------------------------------- specifications: inference and evaluation

\* Sentences with gold labels of a model whose labels are 0 and 1.
EvalInstances == << [sentence |-> <<>>, label |-> 0], [sentence |-> <<1>>, label |-> 1] >>

\* A checkpoint an earlier run left at model_saving_path.
ReadOnlyFile == [kernel |-> MaxParam, classifiers |-> [i \in 1..LayersNum |-> MaxParam]]

\* An evaluation that writes the checkpoint, as the end of an epoch does.
EvaluateCallSaving(set, speed) ==
    /\ \E noise \in DropoutDraws(EvalMode(training)) :
       \E r \in {EvaluateNow(set, speed, noise)} :
          decision' = [op     |-> "_evaluate",
                       speed  |-> speed,
                       status |-> r.status,
                       acc    |-> r.acc]
    /\ training' = IF Len(set) > 0 THEN FALSE ELSE training
    /\ file' = SaveModel
    /\ UNCHANGED <<label_map, id2label, labels_num, seq_length, kernel,
                   classifiers, callVars, pc, args, train, epoch, step,
                   best_acc, error, ft_accs, ft_saves, ft_best, sd_trained,
                   sd_saves,
                   steplog>>

\* model._evaluate(sentences_batch, labels_batch, speed) called on its own.
EvaluateCall(set, speed) ==
    /\ \E noise \in DropoutDraws(EvalMode(training)) :
       \E r \in {EvaluateNow(set, speed, noise)} :
          decision' = [op     |-> "_evaluate",
                       speed  |-> speed,
                       status |-> r.status,
                       acc    |-> r.acc]
    /\ training' = IF Len(set) > 0 THEN FALSE ELSE training
    /\ UNCHANGED <<label_map, id2label, labels_num, seq_length, kernel,
                   classifiers, callVars, pc, args, train, epoch, step,
                   best_acc, file, error, ft_accs, ft_saves, ft_best,
                   sd_trained, sd_saves,
                   steplog>>

\* The sets an evaluation is called on: none, one and two instances.
EvalSets == {SubSeq(EvalInstances, 1, n) : n \in 0..Len(EvalInstances)}

\* A model whose model_saving_path holds nothing or an earlier checkpoint.
InitReadOnly ==
    /\ Construct(<<0, 1>>)
    /\ seq_length = MaxSeqLen
    /\ ret = NoCall
    /\ prev = NoCall
    /\ conv = NoCall
    /\ ckpt = NoCkpt
    /\ file \in {NoFile, ReadOnlyFile}
    /\ FitIdle

NextReadOnly ==
    \/ \E sp \in Speeds : Predict(<<1>>, sp)
    \/ \E set \in EvalSets, sp \in Speeds : EvaluateCall(set, sp)

SpecReadOnly == InitReadOnly /\ [][NextReadOnly]_vars

\* a / b > c / d for b, d > 0.
AccGreater(a, b) == a[1] * b[2] > b[1] * a[2]

\* ---------------------------------------------------------------------- fit

\* The sentence / label pairs of the training and the validation data.
Instances == << [sentence |-> <<>>, label |-> 7], [sentence |-> <<1>>, label |-> 8] >>

TrainSets == {SubSeq(Instances, 1, n) : n \in 1..Len(Instances)}
DevSets == {<<>>, Instances}
DevSpeeds == {500, 811}
FtEpochChoices == {0, 1, MaxFtEpochs}
SdEpochChoices == {0, MaxSdEpochs}

\* A checkpoint an earlier run left at model_saving_path.
StaleFile == [kernel |-> MaxParam, classifiers |-> [i \in 1..LayersNum |-> MaxParam]]

Orders(s) ==
    {t \in [1..Len(s) -> Range(s)] : \A x \in Range(s) : \E j \in 1..Len(s) : t[j] = x}

\* A step count that rounds up and so trains on the short batch at the end.
StepsNumCeil == (Len(train) + args.batch_size - 1) \div args.batch_size

\* steps_num = instances_num // batch_size
StepsNum == Len(train) \div args.batch_size

\* sentences_train[step*batch_size : (step+1)*batch_size]: a slice ends where
\* the list ends.
Batch ==
    LET stop == (step + 1) * args.batch_size
    IN  SubSeq(train, step * args.batch_size + 1,
               IF stop > Len(train) THEN Len(train) ELSE stop)

\* The calls of one minibatch step, in the order of the loop body.
StepOps ==
    <<"optimizer.zero_grad", "_forward_for_loss", "loss.backward",
      "optimizer.step", "scheduler.step">>

\* A step that ran to its end on the batch it sliced.
StepLogged ==
    [batches |-> Append(steplog.batches, Batch), ops |-> steplog.ops \o StepOps]

\* A step whose _forward_for_loss raised: nothing after it ran.
StepRaised ==
    [batches |-> steplog.batches, ops |-> steplog.ops \o SubSeq(StepOps, 1, 2)]

Raise(type, where) ==
    /\ pc' = "failed"
    /\ error' = [type |-> type, where |-> where]

\* fit(sentences_train, labels_train, **kwargs) up to the first epoch of
\* _fine_tuning_backbone.
Fit(sentences_train, sentences_dev, batch_size, finetuning_epochs_num, distilling_epochs_num, dev_speed) ==
    /\ pc = "idle"
    /\ pc' = "ft_epoch"
    /\ args' = [op                    |-> "fit",
                dev                   |-> sentences_dev,
                batch_size            |-> batch_size,
                finetuning_epochs_num |-> finetuning_epochs_num,
                distilling_epochs_num |-> distilling_epochs_num,
                dev_speed             |-> dev_speed]
    /\ train' = sentences_train
    /\ epoch' = 0
    /\ step' = 0
    /\ best_acc' = <<0, 1>>
    /\ ft_best' = [acc |-> <<-1, 1>>, params |-> Snapshot]
    /\ steplog' = NoSteps
    /\ UNCHANGED <<modelVars, callVars, file, error, decision, ft_accs,
                   ft_saves, sd_trained, sd_saves>>

\* optimizer.step(): the parameters the loss reaches through tracked
\* operations move, the others stay. heads are the classifiers (1-based)
\* with a term in the loss, kernel_tracked is whether the layers of the
\* kernel ran with gradient tracking.
OptimizerStep(heads, kernel_tracked) ==
    /\ kernel' \in (IF kernel_tracked THEN ParamValues ELSE {kernel})
    /\ classifiers' \in {cs \in [1..LayersNum -> ParamValues] :
                            \A i \in (1..LayersNum) \ heads : cs[i] = classifiers[i]}

\* A labelled loss that sums over every classifier.
FtLossAllHeads == 1..LayersNum

\* logits = self.classifiers[-1](hidden, mask): the loss of a labelled batch
\* is the one of the last classifier.
FtLossHeads == {LayersNum}

\* hidden = self.kernel.encoder.transformer[i](hidden, mask), with tracking.
FtKernelTracked == TRUE

\* for epoch in range(epochs_num): shuffle_pairs(sentences_train, labels_train)
FtEpochBegin ==
    /\ pc = "ft_epoch"
    /\ epoch < args.finetuning_epochs_num
    /\ train' \in Orders(train)
    /\ step' = 0
    /\ steplog' = NoSteps
    /\ pc' = "ft_step"
    /\ UNCHANGED <<modelVars, callVars, args, epoch, best_acc, file, error,
                   decision, ft_accs, ft_saves, ft_best, sd_trained, sd_saves>>

\* One minibatch of Phase 1: _forward_for_loss(sentences_batch, labels_batch)
\* looks every label up in label_map, the loss reaches the kernel and the
\* last classifier, and optimizer.step() moves them.
FtStep ==
    /\ pc = "ft_step"
    /\ step < StepsNum
    /\ training' = TRUE
    /\ IF \E j \in 1..Len(Batch) : Batch[j].label \notin DOMAIN label_map
       THEN /\ Raise("KeyError", "_forward_for_loss")
            /\ steplog' = StepRaised
            /\ UNCHANGED <<kernel, classifiers, step>>
       ELSE /\ OptimizerStep(FtLossHeads, FtKernelTracked)
            /\ steplog' = StepLogged
            /\ step' = step + 1
            /\ UNCHANGED <<pc, error>>
    /\ UNCHANGED <<label_map, id2label, labels_num, seq_length, callVars, args,
                   train, epoch, best_acc, file, decision, ft_accs, ft_saves,
                   ft_best, sd_trained, sd_saves>>

\* if dev_acc > best_acc / if train_acc > best_acc
ImprovesOrEqual(acc, best) == ~AccGreater(best, acc)
Improves(acc, best) == AccGreater(acc, best)

\* dev_acc, _ = self._evaluate(sentences_dev, labels_dev, speed=0.0)
\*     if dev_num > 0 else 0.0: a float does not unpack into two names.
FtDevEval(noise) ==
    IF Len(args.dev) > 0 THEN EvaluateNow(args.dev, 0, noise)
    ELSE [status |-> "TypeError", acc |-> NoAcc, speed |-> 0]

\* The end of a Phase 1 epoch: the evaluations, then the save decision.
FtEpochEnd ==
    /\ pc = "ft_step"
    /\ step = StepsNum
    /\ \E noise \in DropoutDraws(EvalMode(training)) :
       \E dev_eval \in {FtDevEval(noise)}, train_eval \in {EvaluateNow(train, 0, noise)} :
       LET dev_num == Len(args.dev)
           status  == IF dev_eval.status # "ok" THEN dev_eval.status
                      ELSE train_eval.status
           used    == IF dev_num > 0 THEN dev_eval ELSE train_eval
           save    == Improves(used.acc, best_acc)
       IN  /\ training' = IF dev_num > 0 THEN FALSE ELSE training
           /\ IF status # "ok"
              THEN /\ Raise(status, "_fine_tuning_backbone")
                   /\ UNCHANGED <<epoch, best_acc, file, decision, ft_accs,
                                  ft_saves, ft_best>>
              ELSE /\ file' = IF save THEN SaveModel ELSE file
                   /\ best_acc' = IF save THEN used.acc ELSE best_acc
                   /\ decision' = [op     |-> "_fine_tuning_backbone",
                                   epoch  |-> epoch + 1,
                                   source |-> IF dev_num > 0 THEN "dev" ELSE "train",
                                   speed  |-> used.speed,
                                   acc    |-> used.acc,
                                   saved  |-> save]
                   /\ ft_accs' = Append(ft_accs, used.acc)
                   /\ ft_saves' = IF save THEN Append(ft_saves, epoch + 1)
                                  ELSE ft_saves
                   /\ ft_best' = IF AccGreater(used.acc, ft_best.acc)
                                 THEN [acc |-> used.acc, params |-> Snapshot]
                                 ELSE ft_best
                   /\ epoch' = epoch + 1
                   /\ pc' = "ft_epoch"
                   /\ UNCHANGED error
    /\ UNCHANGED <<label_map, id2label, labels_num, seq_length, kernel,
                   classifiers, callVars, args, train, step, sd_trained,
                   sd_saves,
                   steplog>>

\* load_model(self, model_saving_path) after the epochs of Phase 1, then
\* self_distillation up to its first epoch.
FtFinish ==
    /\ pc = "ft_epoch"
    /\ epoch = args.finetuning_epochs_num
    /\ IF file = NoFile
       THEN /\ Raise("FileNotFoundError", "load_model")
            /\ UNCHANGED <<kernel, classifiers, epoch, step>>
       ELSE /\ kernel' = file.kernel
            /\ classifiers' = file.classifiers
            /\ pc' = "sd_epoch"
            /\ epoch' = 0
            /\ step' = 0
            /\ UNCHANGED error
    /\ ft_accs' = <<>>
    /\ ft_saves' = <<>>
    /\ UNCHANGED <<label_map, id2label, labels_num, seq_length, training,
                   callVars, args, train, best_acc, file, decision, ft_best,
                   sd_trained, sd_saves,
                   steplog>>

\* for epoch in range(epochs_num): random.shuffle(sentences_train)
SdEpochBegin ==
    /\ pc = "sd_epoch"
    /\ epoch < args.distilling_epochs_num
    /\ train' \in Orders(train)
    /\ step' = 0
    /\ steplog' = NoSteps
    /\ pc' = "sd_step"
    /\ UNCHANGED <<modelVars, callVars, args, epoch, best_acc, file, error,
                   decision, ft_accs, ft_saves, ft_best, sd_trained, sd_saves>>

\* A distillation loss whose loop runs over range(layers_num).
SdLossAllHeads == 1..LayersNum

\* for i in range(self.kernel.encoder.layers_num - 1): one loss term per
\* classifier below the last one.
SdLossHeads == 1..(LayersNum - 1)

\* with torch.no_grad(): for the layers of the kernel and the last classifier.
SdKernelTracked == FALSE

\* One minibatch of Phase 2: _forward_for_loss(sentences_batch) sums one loss
\* per classifier 0..L-2, the kernel and the last classifier run under
\* torch.no_grad(), and optimizer.step() moves what the loss reaches.
SdStep ==
    /\ pc = "sd_step"
    /\ step < StepsNum
    /\ training' = TRUE
    /\ OptimizerStep(SdLossHeads, SdKernelTracked)
    /\ steplog' = StepLogged
    /\ step' = step + 1
    /\ UNCHANGED <<label_map, id2label, labels_num, seq_length,
                   callVars, pc, args, train, epoch, best_acc, file, error,
                   decision, ft_accs, ft_saves, ft_best, sd_trained, sd_saves>>

\* The speed of the evaluation of self_distillation: speed=0.5.
SdEvalSpeed == 500

\* dev_acc, ave_layers = self._evaluate(sentences_dev, labels_dev, speed=0.5)
\*     if dev_num > 0 else 0.0: a float does not unpack into two names.
SdDevEval(noise) ==
    IF Len(args.dev) > 0 THEN EvaluateNow(args.dev, SdEvalSpeed, noise)
    ELSE [status |-> "TypeError", acc |-> NoAcc, speed |-> SdEvalSpeed]

\* The end of a Phase 2 epoch: the evaluation, then the save.
SdEpochEnd ==
    /\ pc = "sd_step"
    /\ step = StepsNum
    /\ sd_trained' = sd_trained + 1
    /\ \E noise \in DropoutDraws(EvalMode(training)) :
       \E dev_eval \in {SdDevEval(noise)} :
           /\ training' = IF Len(args.dev) > 0 THEN FALSE ELSE training
           /\ IF dev_eval.status # "ok"
              THEN /\ Raise(dev_eval.status, "self_distillation")
                   /\ UNCHANGED <<epoch, file, decision, sd_saves>>
              ELSE /\ file' = SaveModel
                   /\ sd_saves' = sd_saves + 1
                   /\ decision' = [op     |-> "self_distillation",
                                   epoch  |-> epoch + 1,
                                   source |-> "dev",
                                   speed  |-> dev_eval.speed,
                                   acc    |-> dev_eval.acc,
                                   saved  |-> TRUE]
                   /\ epoch' = epoch + 1
                   /\ pc' = "sd_epoch"
                   /\ UNCHANGED error
    /\ UNCHANGED <<label_map, id2label, labels_num, seq_length, kernel,
                   classifiers, callVars, args, train, step, best_acc, ft_accs,
                   ft_saves, ft_best,
                   steplog>>

\* A last save that writes the best state Phase 1 had instead of the model.
SdFinishWritesBest ==
    /\ pc = "sd_epoch"
    /\ epoch = args.distilling_epochs_num
    /\ file' = ft_best.params
    /\ pc' = "done"
    /\ UNCHANGED <<modelVars, callVars, args, train, epoch, step, best_acc,
                   error, decision, ft_accs, ft_saves, ft_best, sd_trained,
                   sd_saves,
                   steplog>>

\* save_model(self, model_saving_path) after self_distillation: fit returns.
SdFinish ==
    /\ pc = "sd_epoch"
    /\ epoch = args.distilling_epochs_num
    /\ file' = SaveModel
    /\ pc' = "done"
    /\ UNCHANGED <<modelVars, callVars, args, train, epoch, step, best_acc,
                   error, decision, ft_accs, ft_saves, ft_best, sd_trained,
                   sd_saves,
                   steplog>>

InitFit ==
    /\ Construct(<<7, 8>>)
    /\ classifiers = [i \in 1..LayersNum |-> 0]
    /\ seq_length = MaxSeqLen
    /\ ret = NoCall
    /\ prev = NoCall
    /\ conv = NoCall
    /\ ckpt = NoCkpt
    /\ file \in {NoFile, StaleFile}
    /\ FitIdle

NextFit ==
    \/ \E tr \in TrainSets, dv \in DevSets, bs \in 1..MaxBatch,
          fe \in FtEpochChoices, de \in SdEpochChoices, ds \in DevSpeeds :
            Fit(tr, dv, bs, fe, de, ds)
    \/ FtEpochBegin
    \/ FtStep
    \/ FtEpochEnd
    \/ FtFinish
    \/ SdEpochBegin
    \/ SdStep
    \/ SdEpochEnd
    \/ SdFinish

SpecFit == InitFit /\ [][NextFit]_vars

\* fit on the data the error handling is about: an empty training or
\* validation set, and a gold label that is not one of the labels.
AbsentInstance == [sentence |-> <<1>>, label |-> 9]
EdgeTrainSets == {<<>>, <<AbsentInstance>>, Instances}
EdgeDevSets == {<<>>, Instances, <<Instances[1], AbsentInstance>>}
EdgeEpochChoices == {0, 1}

NextFitEdge ==
    \/ \E tr \in EdgeTrainSets, dv \in EdgeDevSets, bs \in 1..MaxBatch,
          fe \in EdgeEpochChoices, de \in EdgeEpochChoices :
            Fit(tr, dv, bs, fe, de, SdEvalSpeed)
    \/ FtEpochBegin
    \/ FtStep
    \/ FtEpochEnd
    \/ FtFinish
    \/ SdEpochBegin
    \/ SdStep
    \/ SdEpochEnd
    \/ SdFinish

SpecFitEdge == InitFit /\ [][NextFitEdge]_vars

\* fit on training data of one to three instances, so that an epoch has
\* no, one or several minibatches, with and without instances left over.
StepInstances ==
    << [sentence |-> <<>>, label |-> 7], [sentence |-> <<1>>, label |-> 8],
       [sentence |-> <<2>>, label |-> 7] >>
StepTrainSets == {SubSeq(StepInstances, 1, n) : n \in 1..Len(StepInstances)}

NextSteps ==
    \/ \E tr \in StepTrainSets, bs \in 1..MaxBatch,
          fe \in EdgeEpochChoices, de \in EdgeEpochChoices :
            Fit(tr, Instances, bs, fe, de, SdEvalSpeed)
    \/ FtEpochBegin
    \/ FtStep
    \/ FtEpochEnd
    \/ FtFinish
    \/ SdEpochBegin
    \/ SdStep
    \/ SdEpochEnd
    \/ SdFinish

SpecSteps == InitFit /\ [][NextSteps]_vars

\* ----------------------------------------------------- claims: inference

\* The hidden state after backbone layer i (0-based) and the probabilities of
\* head i on it, for a sentence under the current parameters.
RECURSIVE HiddenAfter(_, _)
HiddenAfter(sentence, i) ==
    LET tm == ConvertToIdAndMask(sentence, seq_length)
    IN  Transformer(kernel, i,
                    IF i = 0 THEN Embedding(tm.ids, tm.mask)
                    ELSE HiddenAfter(sentence, i - 1))

HeadProbs(sentence, i) == Classifier(classifiers[i + 1], HiddenAfter(sentence, i))

HeadUncertainty(sentence, i) == calc_uncertainty(HeadProbs(sentence, i))

\* The layers (0-based) whose head is certain enough to exit at this speed.
ExitLayers(sentence, speed) ==
    {i \in 0..(LayersNum - 1) : HeadUncertainty(sentence, i) < speed}

Min(S) == CHOOSE x \in S : \A y \in S : x <= y

\* C1: at speed 0.0 the inference pass runs all L backbone layers, reports
\* exec_layer_num = L, and predicts the argmax of the teacher (last) head.
C1_FullDepthAtSpeedZero ==
    (ret.op = "forward" /\ ret.speed = 0) =>
        LET r       == ret.out.inner
            teacher == HeadProbs(ret.sentence, LayersNum - 1)
        IN  /\ r.ran = LayersNum
            /\ r.exec_layer_num = LayersNum
            /\ r.probs = teacher
            /\ r.label_id = ArgMax(teacher)
            /\ r.status = "ok"
            /\ r.label = id2label[ArgMax(teacher)]

\* A pass at speed 0.0 over an input on which a student head is fully certain
\* (uncertainty 0) and disagrees with the teacher.
C1_Witness ==
    /\ ret.op = "forward"
    /\ ret.speed = 0
    /\ \E i \in 0..(LayersNum - 2) :
          /\ HeadUncertainty(ret.sentence, i) = 0
          /\ ArgMax(HeadProbs(ret.sentence, i))
                # ArgMax(HeadProbs(ret.sentence, LayersNum - 1))
    /\ ret.out.inner.exec_layer_num = LayersNum

\* C2: the pass stops at the first layer i whose head's uncertainty is
\* strictly below speed, with exec_layer_num = i + 1 and that head's argmax;
\* with no such layer it runs all L layers and predicts with the teacher;
\* exec_layer_num is in 1..L and is the number of layers executed.
C2_ExitAtFirstCertainLayer ==
    (ret.op = "forward") =>
        LET r     == ret.out.inner
            exits == ExitLayers(ret.sentence, ret.speed)
            last  == IF exits = {} THEN LayersNum - 1 ELSE Min(exits)
        IN  /\ r.exec_layer_num = last + 1
            /\ r.exec_layer_num \in 1..LayersNum
            /\ r.ran = r.exec_layer_num
            /\ r.probs = HeadProbs(ret.sentence, last)
            /\ r.label_id = ArgMax(HeadProbs(ret.sentence, last))
            /\ r.label = id2label[r.label_id]

\* A pass that exits at the second of the layers: the first head is not
\* certain enough, the second is, and layers remain.
C2_Witness ==
    /\ ret.op = "forward"
    /\ ret.speed = 500
    /\ LayersNum > 2
    /\ ret.out.inner.exec_layer_num = 2
    /\ HeadUncertainty(ret.sentence, 0) >= ret.speed
    /\ HeadUncertainty(ret.sentence, 1) < ret.speed

\* C3: for one input and one set of parameters, a larger speed never executes
\* more layers: speed_a > speed_b implies exec_layer_num(speed_a) <=
\* exec_layer_num(speed_b).
C3_Monotone ==
    (/\ ret.op = "forward"
     /\ prev.op = "forward"
     /\ ret.sentence = prev.sentence) =>
        /\ ret.speed > prev.speed
              => ret.out.exec_layer_num <= prev.out.exec_layer_num
        /\ prev.speed > ret.speed
              => prev.out.exec_layer_num <= ret.out.exec_layer_num

\* Two passes over one input where the larger speed executed strictly fewer
\* layers.
C3_Witness ==
    /\ ret.op = "forward"
    /\ prev.op = "forward"
    /\ ret.sentence = prev.sentence
    /\ ret.speed > prev.speed
    /\ prev.speed > 0
    /\ ret.out.exec_layer_num < prev.out.exec_layer_num

\* C4: forward returns (label name, exec_layer_num), the name being the
\* LabelSpace name of the predicted label id, and raises no lookup error.
C4_PredictReturnsLabelName ==
    (ret.op = "forward") =>
        /\ ret.out.status = "ok"
        /\ ret.out.label = id2label[ret.out.inner.label_id]
        /\ ret.out.exec_layer_num = ret.out.inner.exec_layer_num

\* ---------------------------------------------------- claims: conversion

\* C10: ids and mask have length seq_length; mask is 1 exactly where ids
\* holds the start token or a token of the sentence, and 0 exactly where it
\* holds padding.
C10_LengthAndMask ==
    (conv.op = "_convert_to_id_and_mask") =>
        LET ids  == conv.out.ids
            mask == conv.out.mask
            real == <<cls_id>> \o conv.sentence
        IN  /\ Len(ids) = seq_length
            /\ Len(mask) = seq_length
            /\ \A i \in 1..seq_length :
                  /\ mask[i] \in {0, 1}
                  /\ mask[i] = 1 <=> i <= Len(real)
                  /\ mask[i] = 1 => ids[i] = real[i]
                  /\ mask[i] = 0 => ids[i] = pad_id

\* A conversion that padded a sentence of no tokens.
C10_Witness ==
    /\ conv.op = "_convert_to_id_and_mask"
    /\ conv.sentence = <<>>
    /\ seq_length > 1
    /\ conv.out.mask[seq_length] = 0

\* ------------------------------------------------------ claims: training

AccEqual(a, b) == a[1] * b[2] = b[1] * a[2]

\* The best accuracy before epoch e (1-based) of a sequence of epoch
\* accuracies: the largest of 0.0 and the accuracies of the epochs before e.
RECURSIVE BestBefore(_, _)
BestBefore(accs, e) ==
    IF e <= 1 THEN <<0, 1>>
    ELSE LET b == BestBefore(accs, e - 1)
         IN  IF AccGreater(accs[e - 1], b) THEN accs[e - 1] ELSE b

\* C5: Phase 1 writes a checkpoint after an epoch exactly when the epoch's
\* accuracy is strictly greater than the best accuracy so far (0.0 at first,
\* raised on each save); for accuracies 0.5, 0.0, 1.0 (as for 0.70, 0.65,
\* 0.80) it writes after epochs 1 and 3 only.
C5_SaveOnStrictImprovement ==
    /\ \A e \in 1..Len(ft_accs) :
          (\E j \in 1..Len(ft_saves) : ft_saves[j] = e)
              <=> AccGreater(ft_accs[e], BestBefore(ft_accs, e))
    /\ pc \in {"ft_epoch", "ft_step"}
          => AccEqual(best_acc, BestBefore(ft_accs, Len(ft_accs) + 1))
    /\ (/\ pc = "ft_epoch"
        /\ decision.op = "_fine_tuning_backbone"
        /\ decision.epoch = epoch)
          => /\ decision.acc = ft_accs[epoch]
             /\ decision.saved <=> (\E j \in 1..Len(ft_saves) : ft_saves[j] = epoch)
             /\ decision.saved => file = Snapshot
    /\ ft_accs = << <<1, 2>>, <<0, 2>>, <<2, 2>> >> => ft_saves = <<1, 3>>

\* Three epochs with accuracies 0.5, 0.0 and 1.0, saved after the first and
\* the third.
C5_Witness ==
    /\ pc = "ft_epoch"
    /\ ft_accs = << <<1, 2>>, <<0, 2>>, <<2, 2>> >>
    /\ ft_saves = <<1, 3>>
    /\ file = Snapshot

\* C6: after the epochs of Phase 1 the parameters are those of the Phase 1
\* epoch of this run with the best accuracy (the parameters fit was entered
\* with when it ran no epoch), whatever the accuracies were, and the reload
\* does not fail.
C6_Phase2StartsFromBest ==
    /\ error.where # "load_model"
    /\ (pc = "sd_epoch" /\ epoch = 0 /\ sd_trained = 0)
          => Snapshot = ft_best.params

\* C7: Phase 2 writes a checkpoint after every epoch, with or without a
\* validation set: the epochs whose minibatch loop has ended and the
\* checkpoints written are equally many.
C7_SaveAfterEveryDistillEpoch == sd_saves = sd_trained

\* C8: the accuracy of a Phase 1 epoch is evaluated at speed 0.0 on the
\* validation set when there is one and on the training set when there is
\* none, and without a validation set the epoch completes.
C8_EvalOnDevElseTrain ==
    /\ (args.op = "fit" /\ Len(args.dev) = 0)
          => error.where # "_fine_tuning_backbone"
    /\ decision.op = "_fine_tuning_backbone"
          => /\ decision.speed = 0
             /\ decision.source = IF Len(args.dev) > 0 THEN "dev" ELSE "train"

\* C9: the evaluation after a Phase 2 epoch runs at the dev_speed fit was
\* called with.
C9_DistillEvalAtDevSpeed ==
    decision.op = "self_distillation" => decision.speed = args.dev_speed

\* C11: the result is the first seq_length elements of [start] ++ tokens ++
\* [pad, pad, ...], with the mask of as many 1s as real tokens kept: position
\* 0 holds the start token, a sentence that is too long keeps its earliest
\* tokens, and one token at seq_length 4 gives [start, tok, pad, pad] with
\* mask [1, 1, 0, 0].
C11_PrefixOfStartTokensPads ==
    (conv.op = "_convert_to_id_and_mask") =>
        LET ids  == conv.out.ids
            mask == conv.out.mask
            s    == conv.sentence
        IN  /\ ids = SubSeq(<<cls_id>> \o s \o Repeat(pad_id, seq_length),
                            1, seq_length)
            /\ mask = SubSeq(Repeat(1, Len(s) + 1) \o Repeat(0, seq_length),
                             1, seq_length)
            /\ ids[1] = cls_id
            /\ \A i \in 2..seq_length : i <= Len(s) + 1 => ids[i] = s[i - 1]
            /\ (Len(s) = 1 /\ seq_length = 4)
                  => /\ ids = <<cls_id, s[1], pad_id, pad_id>>
                     /\ mask = <<1, 1, 0, 0>>

\* A conversion that cut a sentence of five tokens to seq_length 4.
C11_Witness ==
    /\ conv.op = "_convert_to_id_and_mask"
    /\ Len(conv.sentence) = 5
    /\ seq_length = 4
    /\ conv.out.ids = <<cls_id>> \o SubSeq(conv.sentence, 1, 3)
    /\ conv.sentence[4] # conv.sentence[1]

\* ------------------------------------------------- claims: error handling

HasAbsentLabel(set) == \E j \in 1..Len(set) : set[j].label \notin DOMAIN label_map

\* C12: a gold label that is not in the label space raises a lookup error in
\* a training minibatch and in an evaluation alike: no minibatch with such a
\* label is trained on, and no accuracy is ever the result of an evaluation
\* over a set with such a label.
C12_AbsentLabelRaises ==
    /\ (pc = "ft_step" /\ step > 0)
          => ~HasAbsentLabel(SubSeq(train, 1, step * args.batch_size))
    /\ (decision.op = "_fine_tuning_backbone")
          => ~HasAbsentLabel(args.dev) /\ ~HasAbsentLabel(train)
    /\ (decision.op = "self_distillation") => ~HasAbsentLabel(args.dev)

\* C14: an evaluation over an empty set raises, and no phase records an
\* accuracy for an empty set: an accuracy a phase recorded is a count over
\* the instances of a set that has some.
C14_NoAccuracyForEmptySet ==
    /\ (decision.op = "_fine_tuning_backbone")
          => /\ Len(args.dev) > 0
             /\ Len(train) > 0
             /\ decision.acc[2] = Len(args.dev)
    /\ (decision.op = "self_distillation")
          => /\ Len(args.dev) > 0
             /\ decision.acc[2] = Len(args.dev)
    /\ \A j \in 1..Len(ft_accs) : ft_accs[j][2] > 0
    /\ (args.op = "fit" /\ Len(train) = 0)
          => \A noise \in DropoutNoise :
                EvaluateNow(train, 0, noise).status = "ZeroDivisionError"
    /\ (args.op = "fit" /\ Len(train) = 0 /\ args.finetuning_epochs_num > 0)
          => pc \in {"ft_epoch", "ft_step", "failed"}

\* The evaluation of an empty training set at the end of an epoch raised.
C14_Witness ==
    /\ pc = "failed"
    /\ error = [type |-> "ZeroDivisionError", where |-> "_fine_tuning_backbone"]
    /\ Len(train) = 0
    /\ Len(args.dev) > 0
    /\ decision.op = "none"

\* C13: construction fails with a validation error when labels is not a list
\* and when it is an empty list: no object with labels_num = 0 exists.
C13_ConstructionValidatesLabels ==
    /\ labels_num # 0
    /\ (ret.op = "__init__" /\ (~ret.labels.is_list \/ ret.labels.items = <<>>))
          => /\ error.type # "none"
             /\ labels_num = -1

\* --------------------------------------------------- claims: determinism

\* C16: with the parameters fixed, two passes on the same sentence at the
\* same speed return the same label and exec_layer_num, whatever ran before
\* each of them and whatever mode it left the model in.
C16_InferenceDeterministic ==
    (/\ ret.op = "forward"
     /\ prev.op = "forward"
     /\ ret.sentence = prev.sentence
     /\ ret.speed = prev.speed)
        => /\ ret.out.status = prev.out.status
           /\ ret.out.label = prev.out.label
           /\ ret.out.exec_layer_num = prev.out.exec_layer_num
           /\ ret.out.inner = prev.out.inner

\* Two passes on one input, the first on a model in evaluation mode, the
\* second after a training-loss pass had put it in training mode.
C16_Witness ==
    /\ ret.op = "forward"
    /\ prev.op = "forward"
    /\ ret.sentence = prev.sentence
    /\ ret.speed = prev.speed
    /\ ~prev.mode
    /\ ret.mode
    /\ ret.out.inner = prev.out.inner
    /\ ~training

\* ---------------------------------------------------- claims: persistence

C17_Phase2MovesStudentsOnly ==
    [][(pc \in {"sd_epoch", "sd_step"})
          => /\ kernel' = kernel
             /\ classifiers'[LayersNum] = classifiers[LayersNum]
             /\ LayersNum \notin SdLossHeads
             /\ \A i \in 1..(LayersNum - 1) : i \in SdLossHeads]_vars

\* Steps of the first epoch of Phase 2 have moved a classifier below the last
\* one away from what Phase 2 started with, and nothing else.
C17_Witness ==
    /\ pc = "sd_step"
    /\ step > 0
    /\ sd_saves = 0
    /\ \E i \in 1..(LayersNum - 1) : classifiers[i] # file.classifiers[i]
    /\ kernel = file.kernel
    /\ classifiers[LayersNum] = file.classifiers[LayersNum]

\* C18: no minibatch step of Phase 1 changes a classifier below the last one:
\* the loss of Phase 1 has its one term on the last classifier.
C18_Phase1LeavesStudents ==
    [][(pc = "ft_step")
          => /\ \A i \in 1..(LayersNum - 1) : classifiers'[i] = classifiers[i]
             /\ FtLossHeads = {LayersNum}]_vars

\* Steps of Phase 1 have moved the kernel and the last classifier, and the
\* classifiers below are what the model was constructed with.
C18_Witness ==
    /\ pc = "ft_step"
    /\ step > 0
    /\ kernel # 0
    /\ classifiers[LayersNum] # 0
    /\ \A i \in 1..(LayersNum - 1) : classifiers[i] = 0

\* C19: no inference pass and no evaluation, at whatever speed, changes a
\* parameter of the kernel or of a classifier, or the checkpoint.
C19_InferenceReadsOnly ==
    [][(ret' # ret \/ decision' # decision \/ training' # training)
          => /\ kernel' = kernel
             /\ classifiers' = classifiers
             /\ file' = file]_vars

\* Forward calls at two speeds and an evaluation that computed an accuracy
\* have run on a model that differs from the checkpoint.
C19_Witness ==
    /\ ret.op = "forward"
    /\ prev.op = "forward"
    /\ ret.speed # prev.speed
    /\ decision.op = "_evaluate"
    /\ decision.status = "ok"
    /\ decision.speed > 0
    /\ file # NoFile
    /\ file.classifiers # classifiers
    /\ file.kernel # kernel

\* ------------------------------------------------------ claims: fit's end

\* C20: when fit has returned, model_saving_path holds the parameters the
\* model has: no parameter changed after the last write, with or without
\* epochs of Phase 2.
C20_CheckpointIsModelAtReturn ==
    (pc = "done")
        => /\ file # NoFile
           /\ file.kernel = kernel
           /\ file.classifiers = classifiers

\* fit returned after epochs of Phase 1 that moved the kernel and no epoch of
\* Phase 2.
C20_Witness ==
    /\ pc = "done"
    /\ args.distilling_epochs_num = 0
    /\ args.finetuning_epochs_num > 0
    /\ kernel # 0
    /\ classifiers[LayersNum] = 0
    /\ file = Snapshot

\* ------------------------------------------------- claims: minibatch loop

\* C21: in both phases an epoch takes floor(n / batch_size) steps; step j is
\* on the j-th slice of batch_size instances of the shuffled order and calls
\* zero_grad, the loss, backward, the optimizer step and the scheduler step
\* in that order; the n mod batch_size instances at the end are in no batch;
\* with n < batch_size no optimizer step is taken.
C21_FullBatchesOnly ==
    (args.op = "fit") =>
        LET bs      == args.batch_size
            n       == Len(train)
            full    == n \div bs
            batches == steplog.batches
            ops     == steplog.ops
            order   == <<"optimizer.zero_grad", "_forward_for_loss",
                         "loss.backward", "optimizer.step", "scheduler.step">>
        IN  /\ Len(batches) <= full
            /\ \A j \in 1..Len(batches) :
                  /\ Len(batches[j]) = bs
                  /\ \A k \in 1..bs : batches[j][k] = train[(j - 1) * bs + k]
            /\ Len(ops) = 5 * Len(batches)
            /\ \A k \in 1..Len(ops) : ops[k] = order[((k - 1) % 5) + 1]
            /\ (pc \in {"ft_step", "sd_step"}) => Len(batches) = step
            /\ (pc \in {"ft_epoch", "sd_epoch"} /\ epoch > 0) => Len(batches) = full
            /\ (pc = "done" /\ args.distilling_epochs_num > 0) => Len(batches) = full
            /\ \A i \in (full * bs + 1)..n : \A j \in 1..Len(batches) :
                  \A k \in 1..Len(batches[j]) : batches[j][k] # train[i]
            /\ (n < bs) => batches = <<>> /\ ops = <<>>
            /\ (n < bs /\ pc \in {"ft_epoch", "ft_step"})
                  => kernel = 0 /\ classifiers = [i \in 1..LayersNum |-> 0]

\* An epoch of Phase 1 over three instances in batches of two has ended: one
\* step was taken and it moved the kernel.
C21_Witness ==
    /\ pc = "ft_epoch"
    /\ epoch = 1
    /\ Len(train) = 3
    /\ args.batch_size = 2
    /\ Len(steplog.batches) = 1
    /\ steplog.batches[1] = SubSeq(train, 1, 2)
    /\ kernel # 0

====
